---- MODULE Spec2Model ----
(***************************************************************************)
(* Model of Algo::LruCache<std::string, std::string> (src/lru-cache.cpp):  *)
(* a fixed arena of nodes, one intrusive singly linked list over all the   *)
(* nodes (_bucket_list) into which the bucket table holds iterators, and   *)
(* one intrusive doubly linked list (_usage_list) in least-recently-used   *)
(* to most-recently-used order.                                            *)
(***************************************************************************)
EXTENDS Naturals, Sequences, FiniteSets, TLC

\* ---------------------------------------------------------------- bounds
\* Largest capacity handed to get_instance.
MaxCapacity == 2
\* Largest value std::hash returns for a key (before the % _buckets.size()).
MaxHash == 1
\* Number of threads main starts on Test::run (world_count).
MaxThreads == 2
\* Largest number of iterations of the loop of Test::run (for 1e8).
MaxIters == 2

\* ------------------------------------------------------------- constants
\* template parameter LoadFactor (default value).
LoadFactor == 4

\* Key(): the default-constructed std::string, held by never-written nodes.
DefaultKey == ""
\* Val(): the default-constructed std::string, returned by resolve on a miss.
DefaultVal == ""
\* The keys the callers use: the default key and the keys of the basic test.
Keys == {DefaultKey, "abc", "def", "qwe"}
\* The values the callers use.
Vals == {DefaultVal, "ABC"}

\* _bucket_list.end(): the iterator past the last node.
End == 0

VARIABLES
    capacity,      \* the argument of LruCache(size_t capacity)
    _key_hash,     \* Hash _key_hash: the hash of each key, before the modulo
    _buckets,      \* std::vector<BucketList::iterator>, indexed from 0
    _arena,        \* std::vector<Node>, indexed from 1
    _bucket_list,  \* BucketList: the nodes (arena indices), front first
    _usage_list,   \* UsageList: the nodes (arena indices), front (lru) first
    status,        \* "ok", or the outcome of undefined behaviour
    last,          \* the last call: its operation, key, path taken and result
    home,          \* history: per key, the node the latest update of it wrote (End: none, or overwritten since)
    recent,        \* history: the keys the arena holds that were touched, oldest touch first
    seen,          \* history: the keys passed to update so far
    probe,         \* history: the key of the last resolve that hit, and the new keys updated since
    overwrite,     \* history: "updated" after two updates of one key in a row, "resolved"
                   \* after a resolve of that key next, else "none"
    pc,            \* main(): the next statement of the basic test
    ok,            \* main(): bool ok
    _locked,       \* SpinLock: std::atomic<bool> _locked
    at,            \* Test::run: per thread id, the step it is at
    iter           \* Test::run: per thread id, the loop counter i

cache == <<capacity, _key_hash, _buckets, _arena, _bucket_list, _usage_list, status>>
history == <<home, recent, seen, probe, overwrite>>
test == <<pc, ok>>
threads == <<_locked, at, iter>>
vars == <<capacity, _key_hash, _buckets, _arena, _bucket_list, _usage_list, status,
          last, home, recent, seen, probe, overwrite, pc, ok, _locked, at, iter>>

\* struct Node, as the arena's default construction leaves it.
Node == [_key |-> DefaultKey, _val |-> DefaultVal, _cached_hash |-> 0]

\* slist::push_front / list::push_front
push_front(list, node) == <<node>> \o list

\* list::push_back
push_back(list, node) == Append(list, node)

\* list::pop_front
pop_front(list) == Tail(list)

\* erase that unlinks nothing: the node stays where it was.
erase_none(list, node) == list

\* list::erase(iterator)
erase(list, node) == SelectSeq(list, LAMBDA n : n # node)

\* for (auto &node : _arena) { _bucket_list.push_front(node); _usage_list.push_front(node); }
RECURSIVE PushAll(_, _)
PushAll(list, n) ==
    IF n = 0 THEN list ELSE push_front(PushAll(list, n - 1), n)

\* LruCache(size_t capacity): no check of the capacity.
Construct(c) ==
    /\ capacity = c
    /\ _buckets = [b \in 0 .. (c * LoadFactor - 1) |-> End]
    /\ _arena = [i \in 1 .. c |-> Node]
    /\ _bucket_list = PushAll(<<>>, c)
    /\ _usage_list = PushAll(<<>>, c)

\* _buckets.size()
BucketsSize == Cardinality(DOMAIN _buckets)

\* ++it / std::next(it) on a BucketList::iterator
Next_it(it) ==
    LET pos == CHOOSE p \in 1 .. Len(_bucket_list) : _bucket_list[p] = it
    IN  IF pos = Len(_bucket_list) THEN End ELSE _bucket_list[pos + 1]

\* size_t hash(_key_hash(key) % _buckets.size());
HashOf(key) == _key_hash[key] % BucketsSize

\* Walk without the comparison of the keys: the first node of the chain.
WalkAnyKey(it, hash, key) ==
    IF it = End \/ _arena[it]._cached_hash # hash THEN End ELSE it

\* The while loop of update and resolve: the node of the chain that holds key,
\* or End when the walk leaves the chain without finding it.
RECURSIVE Walk(_, _, _)
Walk(it, hash, key) ==
    IF it = End \/ _arena[it]._cached_hash # hash THEN End
    ELSE IF _arena[it]._key = key THEN it
    ELSE Walk(Next_it(it), hash, key)

\* The nodes the while loop of update and resolve can visit from it: the run of
\* nodes with _cached_hash == hash that starts there.
RECURSIVE Chain(_, _)
Chain(it, hash) ==
    IF it = End \/ _arena[it]._cached_hash # hash THEN {}
    ELSE {it} \cup Chain(Next_it(it), hash)

\* auto it(_buckets[hash]); while (...) { if (_key_equal(key, it->_key)) ...; ++it; }
Find(key) == Walk(_buckets[HashOf(key)], HashOf(key), key)

\* Promote with push_front for push_back: the node becomes the lru node.
PromoteFront(it) == push_front(erase(_usage_list, it), it)

\* _usage_list.erase(usage_it); _usage_list.push_back(*it);
Promote(it) == push_back(erase(_usage_list, it), it)

\* Node &lru(_usage_list.front());
Lru == _usage_list[1]

\* RotateLru with push_front for push_back: the lru node stays the lru node.
RotateLruFront == push_front(pop_front(_usage_list), Lru)

\* _usage_list.pop_front(); _usage_list.push_back(lru);
RotateLru == push_back(pop_front(_usage_list), Lru)

\* ReplaceLru on the back of the usage list: the most recently used node.
ReplaceMru(key, val) ==
    [_arena EXCEPT ![_usage_list[Len(_usage_list)]] =
        [_key |-> key, _val |-> val, _cached_hash |-> HashOf(key)]]

\* lru._key = key; lru._val = val; ... lru._cached_hash = hash;
ReplaceLru(key, val) ==
    [_arena EXCEPT ![Lru] = [_key |-> key, _val |-> val, _cached_hash |-> HashOf(key)]]

\* Overwrite without the assignment of the value.
OverwriteSkipped(it, val) == _arena

\* it->_val = val;
Overwrite(it, val) == [_arena EXCEPT ![it]._val = val]

\* _buckets[lru._cached_hash] = (...) ? _bucket_list.end() : next_bucket_it;
\* _buckets[hash] = lru_bucket_it;
RehomeBuckets(lru, hash) ==
    LET old  == _arena[lru]._cached_hash
        next_bucket_it == Next_it(lru)
        b1   == [_buckets EXCEPT ![old] =
                    IF next_bucket_it = End
                       \/ _arena[next_bucket_it]._cached_hash # old
                    THEN End ELSE next_bucket_it]
    IN  [b1 EXCEPT ![hash] = lru]

\* The outcomes of the undefined behaviour of a call on a cache of capacity 0
\* (% 0, front() of an empty list): a trap, or a run on with corrupted state.
UBOutcomes == {"trap", "corrupt"}

\* No call was observed yet / no resolve is being followed.
None == [op |-> "none"]

\* The keys the callers of this run use.
UsedKeys == DOMAIN _key_hash

\* void update(const Key &key, const Val &val)
update(key, val) ==
    /\ status = "ok"
    /\ IF BucketsSize = 0
       THEN /\ status' \in UBOutcomes
            /\ last' = [op |-> "update", key |-> key, val |-> val, hit |-> FALSE]
            /\ UNCHANGED <<capacity, _key_hash, _buckets, _arena, _bucket_list, _usage_list>>
       ELSE LET it == Find(key) IN
            IF it # End
            THEN /\ _arena' = Overwrite(it, val)
                 /\ _usage_list' = Promote(it)
                 /\ last' = [op |-> "update", key |-> key, val |-> val, hit |-> TRUE]
                 /\ UNCHANGED <<capacity, _key_hash, _buckets, _bucket_list, status>>
            ELSE /\ _arena' = ReplaceLru(key, val)
                 /\ _buckets' = RehomeBuckets(Lru, HashOf(key))
                 /\ _usage_list' = RotateLru
                 /\ last' = [op |-> "update", key |-> key, val |-> val, hit |-> FALSE]
                 /\ UNCHANGED <<capacity, _key_hash, _bucket_list, status>>

\* resolve with a miss that promotes the lru node as if it were hit.
resolve_touching(key) ==
    /\ status = "ok"
    /\ BucketsSize > 0
    /\ LET it == Find(key) IN
       /\ _usage_list' = IF it # End THEN Promote(it) ELSE RotateLru
       /\ last' = [op |-> "resolve", key |-> key,
                   val |-> IF it # End THEN _arena[it]._val ELSE DefaultVal,
                   hit |-> it # End]
       /\ UNCHANGED <<capacity, _key_hash, _buckets, _arena, _bucket_list, status>>

\* Val resolve(const Key &key)
resolve(key) ==
    /\ status = "ok"
    /\ IF BucketsSize = 0
       THEN /\ status' \in UBOutcomes
            /\ last' = [op |-> "resolve", key |-> key, val |-> DefaultVal, hit |-> FALSE]
            /\ UNCHANGED <<capacity, _key_hash, _buckets, _arena, _bucket_list, _usage_list>>
       ELSE LET it == Find(key) IN
            IF it # End
            THEN /\ _usage_list' = Promote(it)
                 /\ last' = [op |-> "resolve", key |-> key, val |-> _arena[it]._val, hit |-> TRUE]
                 /\ UNCHANGED <<capacity, _key_hash, _buckets, _arena, _bucket_list, status>>
            ELSE /\ last' = [op |-> "resolve", key |-> key, val |-> DefaultVal, hit |-> FALSE]
                 /\ UNCHANGED cache

\* ------------------------------------------------------------- histories
\* What the calls did, recorded beside them; no call reads a history.

\* home after update(key, .): the node it wrote is the one the walk found or,
\* on a miss, the lru node, which then no longer holds what it held.
HomeAfterUpdate(key) ==
    IF BucketsSize = 0 THEN home
    ELSE LET it   == Find(key)
             node == IF it # End THEN it ELSE Lru
         IN  [k \in UsedKeys |->
                IF k = key THEN node
                ELSE IF it = End /\ home[k] = node THEN End
                ELSE home[k]]

\* The order of last touch after a touch of key, among the keys the arena holds.
Touch(key, arena) ==
    LET held == {arena[i]._key : i \in DOMAIN arena}
    IN  SelectSeq(Append(SelectSeq(recent, LAMBDA k : k # key), key),
                  LAMBDA k : k \in held)

\* probe after update(key, .): one more new key since the resolve that hit, or
\* the end of the run of new keys.
ProbeAfterUpdate(key) ==
    IF probe # None /\ key \notin seen /\ key # probe.key
    THEN [probe EXCEPT !.fresh = @ + 1]
    ELSE None

\* overwrite after update(key, .): it follows an update of the same key.
OverwriteAfterUpdate(key) ==
    IF last.op = "update" /\ last.key = key THEN "updated" ELSE "none"

\* overwrite after resolve(key): it follows two updates of the same key.
OverwriteAfterResolve(key) ==
    IF overwrite = "updated" /\ last.key = key THEN "resolved" ELSE "none"

\* probe after resolve(key): a resolve that hit starts a run.
ProbeAfterResolve(key) ==
    IF last'.hit THEN [op |-> "resolve", key |-> key, fresh |-> 0] ELSE None

\* The history before the first call.
InitHistory ==
    /\ last = None
    /\ home = [k \in UsedKeys |-> End]
    /\ recent = <<>>
    /\ seen = {}
    /\ probe = None
    /\ overwrite = "none"

\* size_t world_count(4), within the bound on the threads.
world_count == MaxThreads

\* SpinLock _locked{false}, and every thread at the head of the loop of run
\* with i = 0, about to construct its lock_guard (or past the loop).
InitThreads ==
    /\ _locked = FALSE
    /\ at = [id \in 1 .. world_count |-> IF MaxIters > 0 THEN "exchange" ELSE "done"]
    /\ iter = [id \in 1 .. world_count |-> 0]

\* get_instance(arg) for any arg, and any hash of the keys.
Init ==
    /\ \E c \in 0 .. MaxCapacity : Construct(c)
    /\ _key_hash \in [Keys -> 0 .. MaxHash]
    /\ status = "ok"
    /\ InitHistory
    /\ pc = 0
    /\ ok = TRUE
    /\ InitThreads

\* A caller's update with any key and value.
Update ==
    \E key \in Keys, val \in Vals :
        /\ update(key, val)
        /\ home' = HomeAfterUpdate(key)
        /\ UNCHANGED <<recent, seen, probe, overwrite, pc, ok, threads>>

\* A caller's resolve with any key.
Resolve ==
    \E key \in Keys :
        /\ resolve(key)
        /\ UNCHANGED <<home, recent, seen, probe, overwrite, pc, ok, threads>>

Next == Update \/ Resolve

Spec == Init /\ [][Next]_vars

\* The same calls, with the order of last touch recorded.
TouchUpdate ==
    \E key \in Keys, val \in Vals :
        /\ update(key, val)
        /\ recent' = IF BucketsSize = 0 THEN recent ELSE Touch(key, _arena')
        /\ UNCHANGED <<home, seen, probe, overwrite, pc, ok, threads>>

TouchResolve ==
    \E key \in Keys :
        /\ resolve(key)
        /\ recent' = IF last'.hit THEN Touch(key, _arena) ELSE recent
        /\ UNCHANGED <<home, seen, probe, overwrite, pc, ok, threads>>

TouchNext == TouchUpdate \/ TouchResolve

TouchSpec == Init /\ [][TouchNext]_vars

\* The same calls, with the keys inserted recorded; the values play no part.
InsertUpdate ==
    \E key \in Keys :
        /\ update(key, "ABC")
        /\ seen' = IF BucketsSize = 0 THEN seen ELSE seen \cup {key}
        /\ probe' = IF BucketsSize = 0 THEN probe ELSE ProbeAfterUpdate(key)
        /\ UNCHANGED <<home, recent, overwrite, pc, ok, threads>>

InsertResolve ==
    \E key \in Keys :
        /\ resolve(key)
        /\ probe' = ProbeAfterResolve(key)
        /\ UNCHANGED <<home, recent, seen, overwrite, pc, ok, threads>>

InsertNext == InsertUpdate \/ InsertResolve

InsertSpec == Init /\ [][InsertNext]_vars

\* The same calls, with the updates of one key in a row recorded.
OverwriteUpdate ==
    \E key \in Keys, val \in Vals :
        /\ update(key, val)
        /\ overwrite' = IF BucketsSize = 0 THEN overwrite ELSE OverwriteAfterUpdate(key)
        /\ UNCHANGED <<home, recent, seen, probe, pc, ok, threads>>

OverwriteResolve ==
    \E key \in Keys :
        /\ resolve(key)
        /\ overwrite' = IF BucketsSize = 0 THEN overwrite ELSE OverwriteAfterResolve(key)
        /\ UNCHANGED <<home, recent, seen, probe, pc, ok, threads>>

OverwriteNext == OverwriteUpdate \/ OverwriteResolve

OverwriteSpec == Init /\ [][OverwriteNext]_vars

\* get_instance(MaxCapacity + 1): a cache one node larger than the largest of
\* Init, the smallest in which a miss can leave the lost key's node off the
\* front of the usage list.
LargeInit ==
    /\ Construct(MaxCapacity + 1)
    /\ _key_hash \in [Keys -> 0 .. MaxHash]
    /\ status = "ok"
    /\ InitHistory
    /\ pc = 0
    /\ ok = TRUE
    /\ InitThreads

\* The calls of InsertSpec on the larger cache.
LargeSpec == LargeInit /\ [][InsertNext]_vars

\* main(): the statements of the basic test; val is the value an update
\* stores, or the value a resolve is compared with.
BasicScript == <<
    [op |-> "update",  key |-> "abc", val |-> "ABC"],
    [op |-> "update",  key |-> "def", val |-> "DEF"],
    [op |-> "resolve", key |-> "abc", val |-> "ABC"],
    [op |-> "resolve", key |-> "def", val |-> "DEF"],
    [op |-> "update",  key |-> "abc", val |-> "ABC!"],
    [op |-> "resolve", key |-> "def", val |-> "DEF"],
    [op |-> "resolve", key |-> "abc", val |-> "ABC!"],
    [op |-> "update",  key |-> "qwe", val |-> "QWE"],
    [op |-> "resolve", key |-> "abc", val |-> "ABC!"],
    [op |-> "resolve", key |-> "qwe", val |-> "QWE"],
    [op |-> "resolve", key |-> "def", val |-> ""],
    [op |-> "update",  key |-> "iop", val |-> "IOP"],
    [op |-> "resolve", key |-> "qwe", val |-> "QWE"],
    [op |-> "resolve", key |-> "iop", val |-> "IOP"],
    [op |-> "resolve", key |-> "abc", val |-> ""] >>

\* The keys of the basic test.
BasicKeys == {BasicScript[i].key : i \in 1 .. Len(BasicScript)}

\* main(): DnsCache::get_instance(2), with any hash of the test's keys.
BasicInit ==
    /\ Construct(2)
    /\ _key_hash \in [BasicKeys -> 0 .. MaxHash]
    /\ status = "ok"
    /\ InitHistory
    /\ pc = 1
    /\ ok = TRUE
    /\ InitThreads

\* main(): the next statement of the basic test; ok &= (resolve(key) == val).
BasicTest ==
    /\ pc \in 1 .. Len(BasicScript)
    /\ LET stmt == BasicScript[pc] IN
       IF stmt.op = "update"
       THEN update(stmt.key, stmt.val) /\ ok' = ok
       ELSE resolve(stmt.key) /\ ok' = (ok /\ last'.val = stmt.val)
    /\ pc' = pc + 1
    /\ UNCHANGED <<history, threads>>

BasicSpec == BasicInit /\ [][BasicTest]_vars

\* ------------------------------------------------------------- Test::run
\* size_t roundIters(2 * id);
roundIters(id) == 2 * id

\* std::to_string(id) + "round" + std::to_string(i / roundIters)
UpdateKey(id, n) == ToString(id) \o "round" \o ToString(n \div roundIters(id))

\* std::to_string(id) + "Round" + std::to_string(i / roundIters)
UpdateVal(id, n) == ToString(id) \o "Round" \o ToString(n \div roundIters(id))

\* std::to_string((i + id) % world_count) + "round" + std::to_string(i / (2 * world_count))
ResolveKey(id, n) ==
    ToString((n + id) % world_count) \o "round" \o ToString(n \div (2 * world_count))

\* The keys the threads pass to the cache within MaxIters iterations.
RunKeys ==
    {UpdateKey(id, n) : id \in 1 .. world_count, n \in {k \in 0 .. MaxIters : k < MaxIters}}
        \cup {ResolveKey(id, n) : id \in 1 .. world_count, n \in {k \in 0 .. MaxIters : k < MaxIters}}

\* The threads of main's perf test: the instance get_instance() returns, with
\* any capacity main constructed it with, and any hash of the threads' keys.
RunInit ==
    /\ \E c \in 1 .. MaxCapacity : Construct(c)
    /\ _key_hash \in [RunKeys -> 0 .. MaxHash]
    /\ status = "ok"
    /\ InitHistory
    /\ pc = 0
    /\ ok = TRUE
    /\ InitThreads

\* exchange that reads nothing: it stores and reports the lock as free.
exchange_blind(desired) == [returned |-> FALSE, stored |-> desired]

\* _locked.exchange(desired): one atomic step that returns the value held and
\* stores the desired one.
exchange(desired) == [returned |-> _locked, stored |-> desired]

\* SpinLock::lock(): while (_locked.exchange(true, acquire)), entered from the
\* lock_guard's constructor; false ends lock() and the thread makes its call.
lock_exchange(id) ==
    /\ at[id] = "exchange"
    /\ LET x == exchange(TRUE) IN
       /\ _locked' = x.stored
       /\ at' = [at EXCEPT ![id] = IF x.returned THEN "load" ELSE "call"]
    /\ UNCHANGED <<cache, last, history, test, iter>>

\* SpinLock::lock(): while (_locked.load(relaxed)) {}
lock_load(id) ==
    /\ at[id] = "load"
    /\ at' = [at EXCEPT ![id] = IF _locked THEN "load" ELSE "exchange"]
    /\ UNCHANGED <<cache, last, history, test, _locked, iter>>

\* Test::run: if (!(i % roundIters)) lru_cache.update(...) else lru_cache.resolve(...)
run_call(id) ==
    /\ at[id] = "call"
    /\ IF iter[id] % roundIters(id) = 0
       THEN update(UpdateKey(id, iter[id]), UpdateVal(id, iter[id]))
       ELSE resolve(ResolveKey(id, iter[id]))
    /\ at' = [at EXCEPT ![id] = "unlock"]
    /\ UNCHANGED <<history, test, _locked, iter>>

\* SpinLock::unlock() from the lock_guard's destructor: _locked.store(false,
\* release); then ++i and the test of the for loop.
unlock(id) ==
    /\ at[id] = "unlock"
    /\ _locked' = FALSE
    /\ iter' = [iter EXCEPT ![id] = @ + 1]
    /\ at' = [at EXCEPT ![id] = IF iter[id] + 1 < MaxIters THEN "exchange" ELSE "done"]
    /\ UNCHANGED <<cache, last, history, test>>

\* Any thread takes its next atomic step.
RunNext ==
    \E id \in 1 .. world_count :
        lock_exchange(id) \/ lock_load(id) \/ run_call(id) \/ unlock(id)

RunSpec == RunInit /\ [][RunNext]_vars

\* ---------------------------------------------------------------- claims

\* resolve(key) would hit: the walk from the key's bucket finds a node holding it.
Resolvable(key) == status = "ok" /\ BucketsSize > 0 /\ Find(key) # End

\* The keys on which resolve would hit.
Live == {k \in UsedKeys : Resolvable(k)}

\* C1: round trip. A resolve(k) that follows an update(k, v), with no later
\* update(k, .) and with the node that update wrote not replaced since,
\* returns v (the value that node still holds), whatever the hash function.
C1_RoundTrip ==
    (capacity >= 1 /\ last.op = "resolve" /\ home[last.key] # End)
        => last.val = _arena[home[last.key]]._val

\* The place of key in the order of last touch (0: never touched while held).
TouchRank(key) ==
    IF \E p \in 1 .. Len(recent) : recent[p] = key
    THEN CHOOSE p \in 1 .. Len(recent) : recent[p] = key
    ELSE 0

\* The keys that are cached: resolve would hit them, and a call touched them.
Cached == {k \in Live : TouchRank(k) > 0}

\* C2: LRU eviction. Whenever a call evicts a key (it was cached before the
\* call and resolve no longer hits it after), that key was the one with the
\* oldest last touch among the keys cached before the call.
C2_LruEviction ==
    [][\A e \in Cached :
          ~Resolvable(e)' => \A j \in Cached \ {e} : TouchRank(e) < TouchRank(j)]_vars

\* C3 as stated: after a resolve(k) that hit and updates of `capacity` other
\* new, pairwise distinct keys, resolve(k) still hits; after `capacity + 1` of
\* them it misses.
C3_PromotionOnRead ==
    (capacity >= 1 /\ status = "ok" /\ probe # None)
        => /\ probe.fresh = capacity => Resolvable(probe.key)
           /\ probe.fresh = capacity + 1 => ~Resolvable(probe.key)

\* C3, amended: after a resolve(k) that hit and updates of `capacity` or more
\* (so also `capacity + 1`) other new, pairwise distinct keys, k has been
\* evicted: resolve(k) misses.
C3_PromotionEvicted ==
    (capacity >= 1 /\ status = "ok" /\ probe # None /\ probe.fresh >= capacity)
        => ~Resolvable(probe.key)

\* A resolve hit on a cache of capacity 2 or more, then capacity + 1 new keys.
C3_Witness ==
    capacity >= 2 /\ status = "ok" /\ probe # None /\ probe.fresh = capacity + 1

\* The keys of the nodes, node by node.
NodeKeys == [i \in DOMAIN _arena |-> _arena[i]._key]

\* C4: idempotent overwrite. An update(k, v2) that follows an update(k, v1)
\* changes the key of no node and leaves every key resolvable that was, and a
\* resolve(k) that follows an update(k, v2) returns v2.
C4_IdempotentOverwrite ==
    [][(capacity >= 1 /\ status' = "ok" /\ last.op = "update" /\ last'.key = last.key)
          => /\ last'.op = "update"
                  => (NodeKeys' = NodeKeys /\ Live \subseteq Live')
             /\ last'.op = "resolve" => last'.val = last.val]_vars

\* update(k, v1); update(k, v2); resolve(k) ran on a cache holding another key.
C4_Witness ==
    /\ capacity >= 2 /\ last.op = "resolve" /\ overwrite = "resolved"
    /\ last.val # DefaultVal /\ Cardinality(Live) >= 2

\* C5: capacity is filled. Once updates with at least `capacity` distinct keys
\* were made, resolve hits on exactly `capacity` distinct keys.
C5_CapacityFilled ==
    (capacity >= 1 /\ status = "ok" /\ Cardinality(seen) >= capacity)
        => Cardinality(Live) = capacity

\* C6: capacity ceiling. Resolve hits on at most `capacity` distinct keys, and
\* the arena holds exactly `capacity` nodes.
C6_CapacityCeiling ==
    Cardinality(Live) <= capacity /\ Len(_arena) = capacity

\* An update replaced a node of a cache of capacity 2 or more whose nodes all
\* hold keys on which resolve hits.
C6_Witness ==
    /\ capacity >= 2 /\ last.op = "update" /\ ~last.hit
    /\ Cardinality(Live) = capacity
    /\ \A i \in DOMAIN _arena : _arena[i]._key # DefaultKey

\* C7: the basic test of main() ends with ok true, whatever buckets its four
\* keys hash to.
C7_BasicScenario ==
    pc = Len(BasicScript) + 1 => ok

\* C8: the value a resolve that missed returned differs from the value of
\* every hit, so from the value stored with any key resolve hits.
C8_MissDistinguishable ==
    (capacity >= 1 /\ last.op = "resolve" /\ ~last.hit)
        => \A k \in Live : _arena[Find(k)]._val # last.val

\* C9: a cache of capacity 0 is not constructed (InvalidCapacity), and no call
\* runs into the undefined behaviour of a bucket table of size 0.
C9_ZeroCapacityRejected ==
    /\ capacity = 0 => status = "InvalidCapacity"
    /\ status \notin UBOutcomes

\* C10: resolve changes neither the bucket table nor any node's key, value or
\* bucket index; a resolve that misses changes nothing of the cache, a resolve
\* that hits only the usage order.
C10_ResolveFrame ==
    [][(capacity >= 1 /\ last'.op = "resolve")
          => /\ _buckets' = _buckets /\ _arena' = _arena
             /\ _bucket_list' = _bucket_list /\ capacity' = capacity
             /\ ~last'.hit => _usage_list' = _usage_list]_vars

\* A resolve hit a node that was not the most recently used one, and so
\* changed the usage order.
C10_Witness ==
    /\ capacity >= 2 /\ last.op = "resolve" /\ last.hit
    /\ last.key # DefaultKey /\ home[last.key] # End
    /\ \E k \in UsedKeys : k # last.key /\ home[k] # End

\* The value resolve(key) returns when it hits.
ValueOf(key) == _arena[Find(key)]._val

\* C11: an update that misses evicts at most one key. Every key on which
\* resolve would hit before the update, other than the key of the usage
\* list's front node, is resolvable with the same value after the update.
C11_MissEvictsOne ==
    [][(capacity >= 1 /\ last'.op = "update" /\ ~last'.hit)
          => \A k \in Live :
                k # _arena[Lru]._key
                    => (Resolvable(k)' /\ ValueOf(k)' = ValueOf(k))]_vars

\* C12: bucket-table invariant. For every bucket b the walk from _buckets[b]
\* visits exactly the nodes whose _cached_hash is b.
C12_BucketTable ==
    status = "ok"
        => \A b \in DOMAIN _buckets :
              Chain(_buckets[b], b)
                  = {i \in DOMAIN _arena : _arena[i]._cached_hash = b}

\* C13: on an update that misses into another bucket than the victim's old
\* one, when the victim is a member of its old bucket's chain but not its
\* head, the entry of the old bucket keeps pointing at the same head.
C13_OldBucketFrame ==
    [][(capacity >= 1 /\ last'.op = "update" /\ ~last'.hit)
          => LET old == _arena[Lru]._cached_hash IN
             (/\ HashOf(last'.key) # old
              /\ _buckets[old] # Lru
              /\ Lru \in Chain(_buckets[old], old))
                 => _buckets'[old] = _buckets[old]]_vars

\* C14: on an update that misses, the front node of the usage list receives
\* the new key, value and bucket index, and no other node changes.
C14_VictimIsFront ==
    [][(capacity >= 1 /\ last'.op = "update" /\ ~last'.hit)
          => /\ _arena'[Lru] = [_key |-> last'.key, _val |-> last'.val,
                                _cached_hash |-> _key_hash[last'.key] % (capacity * LoadFactor)]
             /\ \A i \in DOMAIN _arena : i # Lru => _arena'[i] = _arena[i]
             /\ DOMAIN _arena' = DOMAIN _arena]_vars

\* An update missed on a cache of capacity 2 or more whose other node holds
\* another written key; the node it wrote is now the most recently used.
C14_Witness ==
    /\ capacity >= 2 /\ last.op = "update" /\ ~last.hit
    /\ _arena[_usage_list[Len(_usage_list)]]._key = last.key
    /\ \E i \in DOMAIN _arena : _arena[i]._key \notin {DefaultKey, last.key}

C16_UsagePermutation ==
    status = "ok"
        => /\ Len(_usage_list) = capacity
           /\ {_usage_list[p] : p \in 1 .. Len(_usage_list)} = DOMAIN _arena

\* A resolve hit on a cache of capacity 2 or more and left the usage list in
\* another order than the constructor's.
C16_Witness ==
    /\ capacity >= 2 /\ status = "ok" /\ last.op = "resolve" /\ last.hit
    /\ _usage_list # PushAll(<<>>, capacity)

\* C18: no phantom hit. A resolve hits only a key that an earlier update was
\* passed; the default key of the never-written nodes is not found.
C18_NoPhantomHit ==
    (capacity >= 1 /\ last.op = "resolve" /\ last.hit) => last.key \in seen

\* C19: no duplicate keys. No key passed to update (other than the default
\* key, which the never-written nodes hold) is held by two nodes at once.
C19_NoDuplicateKeys ==
    status = "ok"
        => \A i, j \in DOMAIN _arena :
              (i # j /\ _arena[i]._key \in seen \ {DefaultKey})
                  => _arena[i]._key # _arena[j]._key

\* The threads inside the guarded call: lock() has returned to them and their
\* lock_guard has not yet been destroyed.
Inside == {id \in 1 .. world_count : at[id] \in {"call", "unlock"}}

\* C17: serialized access. Under every interleaving of the threads' exchange,
\* load and store steps, at most one thread is inside a cache call.
C17_SerializedAccess ==
    Cardinality(Inside) <= 1

\* A thread that took the lock again after a release is inside its second
\* call while another thread, whose exchange found the lock taken, spins.
C17_Witness ==
    \E a, b \in 1 .. world_count :
        /\ at[a] = "call" /\ iter[a] >= 1
        /\ at[b] = "load" /\ _locked

====
